---- MODULE Spec2Model ----
(***************************************************************************)
(* Solid WebID Profile Viewer (src/src/App.tsx).                           *)
(*                                                                         *)
(* Three specifications over one set of variables:                         *)
(*   Spec        the page: useQueryWebId, App's state, its load effect,    *)
(*               the promise callbacks, onSubmit and the links;            *)
(*   SpecLoader  loadProfile step by step (primary fetch, extraction,      *)
(*               concurrent contact fetches on the shared store);          *)
(*   SpecExtract the pure helpers nodeToString, extractName,               *)
(*               extractContacts over bounded stores.                      *)
(*                                                                         *)
(* A JavaScript string is a sequence of lexemes (<<"https:", "//", ...>>), *)
(* so that trimming, URL parsing and query-string encoding are computed.   *)
(* An optional value (T | null | undefined) is a record [def, v].          *)
(***************************************************************************)
EXTENDS Integers, Sequences, FiniteSets, TLC

VARIABLES
    \* ---- the page (Spec) ----
    search,          \* window.location.search, <<>> when there is no query
    nav,             \* navigation requested by location.replace / location.href =
    mounted,         \* App is mounted in the current page view
    effects,         \* "pending" | "redirect" | "done": which effects have run
    initialWebId,    \* useQueryWebId's state
    currentWebId,    \* the form input's state
    loading, error, profile,   \* App's state
    loads,           \* every loadProfile call so far, with its closure's flag
                     \* (ghost fields: primary, the primary fetch's outcome;
                     \* ignored, a callback ran after the cleanup)
    active,          \* index in loads of the current view's load, 0 if none
    views,           \* page views so far
    loadsThisView,   \* loadProfile calls of the current page view
    redirectsThisView, \* location.replace calls of the current page view
    viaRedirect,     \* the current page view was reached by the redirect
    \* ---- loadProfile (SpecLoader) ----
    web,             \* uri -> the document served at uri
    outcome,         \* run -> uri -> how the fetch of uri ends
    run,             \* run -> the state of that execution of loadProfile
    \* ---- the helpers (SpecExtract) ----
    xin,             \* the input drawn for the helpers
    xout             \* what the helpers returned

viewVars == <<search, nav, mounted, effects, initialWebId, currentWebId, loading,
              error, profile, loads, active, views, loadsThisView,
              redirectsThisView, viaRedirect>>
loaderVars == <<web, outcome, run>>
extractVars == <<xin, xout>>
vars == <<viewVars, loaderVars, extractVars>>

----------------------------------------------------------------------------
(* Bounds *)
MaxViews == 2
MaxKnows == 3

----------------------------------------------------------------------------
(* Optional values and JavaScript truthiness *)
Undefined == [def |-> FALSE, v |-> <<>>]
Some(s) == [def |-> TRUE, v |-> s]
\* Boolean(x) for x : string | null | undefined
Truthy(x) == x.def /\ x.v # <<>>

(* Strings *)
DEFAULT_WEBID ==
    <<"https:", "//", "timbl.solidcommunity.net", "/profile/card", "#", "me">>
ExampleWebId == <<"https:", "//", "example.org", "/profile", "#", "me">>
NotAUrl == <<"not", " ", "a", " ", "url">>

RECURSIVE TrimStart(_)
TrimStart(s) == IF s # <<>> /\ Head(s) = " " THEN TrimStart(Tail(s)) ELSE s
RECURSIVE TrimEnd(_)
TrimEnd(s) ==
    IF s # <<>> /\ s[Len(s)] = " " THEN TrimEnd(SubSeq(s, 1, Len(s) - 1)) ELSE s
\* String.prototype.trim
Trim(s) == TrimEnd(TrimStart(s))

\* new URL(s): the parsed record, or ok = FALSE where the constructor throws
ParseURL(s) ==
    LET t == Trim(s) IN
    IF Len(t) >= 3 /\ t[1] = "https:" /\ t[2] = "//"
          /\ t[3] \notin {" ", "#", "//", "https:"}
          /\ \A i \in 4..Len(t) : t[i] # " "
    THEN [ok |-> TRUE, hostname |-> <<t[3]>>]
    ELSE [ok |-> FALSE, hostname |-> <<>>]

\* percent-encoding of one lexeme (encodeURIComponent)
PercentEncode(t) ==
    CASE t = "https:" -> "https%3A"
      [] t = "//" -> "%2F%2F"
      [] t = "/profile/card" -> "%2Fprofile%2Fcard"
      [] t = "/profile" -> "%2Fprofile"
      [] t = "#" -> "%23"
      [] t = " " -> "%20"
      [] OTHER -> t
EncodeURIComponent(s) == [i \in 1..Len(s) |-> PercentEncode(s[i])]
\* application/x-www-form-urlencoded serialisation (URLSearchParams): space is "+"
FormEncode(s) == [i \in 1..Len(s) |-> IF s[i] = " " THEN "+" ELSE PercentEncode(s[i])]
\* the decoding URLSearchParams applies to a value
FormDecodeLexeme(t) ==
    CASE t = "https%3A" -> "https:"
      [] t = "%2F%2F" -> "//"
      [] t = "%2Fprofile%2Fcard" -> "/profile/card"
      [] t = "%2Fprofile" -> "/profile"
      [] t = "%23" -> "#"
      [] t = "%20" -> " "
      [] t = "+" -> " "
      [] OTHER -> t
FormDecode(s) == [i \in 1..Len(s) |-> FormDecodeLexeme(s[i])]

\* new URLSearchParams(window.location.search).get("webid")
ParamsGet(q) ==
    IF q # <<>> /\ Head(q) = "?webid=" THEN Some(FormDecode(Tail(q))) ELSE Undefined
\* url.searchParams.set("webid", v); url.toString(): the address from "?" on
SearchWith_Unencoded(v) == <<"?webid=">> \o v
SearchWith(v) == <<"?webid=">> \o FormEncode(v)
\* window.location.search of an address: the part before the fragment's "#"
RECURSIVE LocationSearch(_)
LocationSearch(a) ==
    IF a = <<>> \/ Head(a) = "#" THEN <<>> ELSE <<Head(a)>> \o LocationSearch(Tail(a))

----------------------------------------------------------------------------
(* The page: useQueryWebId and App *)

NoNav == [def |-> FALSE, v |-> <<>>, redirect |-> FALSE]
NoProfile == [null |-> TRUE, of |-> <<>>, contacts |-> {}]
\* a resolved Profile; "of" is a ghost field: the WebID the load was started for
ProfileOf(w, cs) == [null |-> FALSE, of |-> w, contacts |-> cs]

FetchOutcomes == {"ok", "network", "timeout", "parse"}
Failures == FetchOutcomes \ {"ok"}
NoRejection == [isError |-> FALSE, message |-> <<>>]
\* the rejection reason of a failed fetcher.load
FetchError(kind) == [isError |-> TRUE, message |-> <<"Fetcher:", kind>>]
\* e instanceof Error ? e.message : "Failed to load the WebID profile."
ErrorMessage(e) ==
    IF e.isError THEN e.message ELSE <<"Failed to load the WebID profile.">>

\* what the form's user may type
Inputs == {NotAUrl, <<" ">> \o ExampleWebId \o <<" ">>}
\* the address the README opens: the WebID unencoded, so that its "#me" is the
\* page's own fragment
ReadmeAddress == <<"?webid=">> \o DEFAULT_WEBID
\* the addresses (from "?" on) the page may be opened at
Addresses == { <<>>, <<"?webid=">>, ReadmeAddress }
\* the URIs a loaded profile may list as contacts
ContactWebIds == {ExampleWebId}

\* the component's state at its first render, for the page at query q
FirstRender(q) ==
    LET w == ParamsGet(q) IN
    [ initialWebId |-> w,
      currentWebId |-> IF w.def THEN w.v ELSE <<>>,
      loading |-> FALSE,
      error |-> Undefined,
      profile |-> NoProfile ]

\* the load effect's cleanup: cancelled = true in the closure of the view's load
Cleanup(ls, a) ==
    IF a = 0 THEN ls ELSE [ls EXCEPT ![a].cancelled = TRUE]

\* what the render shows (the three conditional blocks of main)
Shown ==
    (IF loading THEN {"loading"} ELSE {})
    \cup (IF Truthy(error) THEN {"error"} ELSE {})
    \cup (IF ~loading /\ ~Truthy(error) /\ ~profile.null THEN {"profile"} ELSE {})

LoaderIdle == web = <<>> /\ outcome = <<>> /\ run = <<>>
ExtractIdle == xin = <<>> /\ xout = <<>>

Init ==
    /\ \E q \in Addresses :
         LET s == FirstRender(LocationSearch(q)) IN
         /\ search = LocationSearch(q)
         /\ initialWebId = s.initialWebId
         /\ currentWebId = s.currentWebId
         /\ loading = s.loading
         /\ error = s.error
         /\ profile = s.profile
    /\ nav = NoNav
    /\ mounted = TRUE
    /\ effects = "pending"
    /\ loads = <<>>
    /\ active = 0
    /\ views = 1
    /\ loadsThisView = 0
    /\ redirectsThisView = 0
    /\ viaRedirect = FALSE
    /\ LoaderIdle
    /\ ExtractIdle

\* useQueryWebId's effect
RedirectEffect ==
    /\ mounted /\ effects = "pending"
    /\ effects' = "redirect"
    /\ IF ~Truthy(initialWebId)
       THEN /\ nav' = [def |-> TRUE, v |-> SearchWith(DEFAULT_WEBID), redirect |-> TRUE]
            /\ redirectsThisView' = redirectsThisView + 1
       ELSE UNCHANGED <<nav, redirectsThisView>>
    /\ UNCHANGED <<search, mounted, initialWebId, currentWebId, loading, error,
                   profile, loads, active, views, loadsThisView, viaRedirect>>
    /\ UNCHANGED <<loaderVars, extractVars>>

\* App's effect, up to the call of loadProfile
LoadEffect ==
    /\ mounted /\ effects = "redirect"
    /\ effects' = "done"
    /\ IF ~Truthy(initialWebId)
       THEN UNCHANGED <<loading, error, loads, active, loadsThisView>>
       ELSE /\ loading' = TRUE
            /\ error' = Undefined
            /\ loads' = Append(loads, [ webId |-> initialWebId.v,
                                        cancelled |-> FALSE,
                                        phase |-> "primary",
                                        primary |-> "pending",
                                        ignored |-> FALSE,
                                        res |-> NoProfile,
                                        e |-> NoRejection ])
            /\ active' = Len(loads) + 1
            /\ loadsThisView' = loadsThisView + 1
    /\ UNCHANGED <<search, nav, mounted, initialWebId, currentWebId, profile,
                   views, redirectsThisView, viaRedirect>>
    /\ UNCHANGED <<loaderVars, extractVars>>

\* loadProfile as the page sees it: await fetcher.load(webId) settles
PrimarySettle(l, o) ==
    /\ loads[l].phase = "primary"
    /\ loads' = IF o = "ok"
                THEN [loads EXCEPT ![l].phase = "contacts", ![l].primary = o]
                ELSE [loads EXCEPT ![l].phase = "rejected", ![l].primary = o,
                                   ![l].e = FetchError(o)]
    /\ UNCHANGED <<search, nav, mounted, effects, initialWebId, currentWebId,
                   loading, error, profile, active, views, loadsThisView,
                   redirectsThisView, viaRedirect>>
    /\ UNCHANGED <<loaderVars, extractVars>>

\* loadProfile as the page sees it: Promise.all settles and the Profile is returned
ContactsSettle(l, cs) ==
    /\ loads[l].phase = "contacts"
    /\ loads' = [loads EXCEPT ![l].phase = "resolved",
                              ![l].res = ProfileOf(loads[l].webId, cs)]
    /\ UNCHANGED <<search, nav, mounted, effects, initialWebId, currentWebId,
                   loading, error, profile, active, views, loadsThisView,
                   redirectsThisView, viaRedirect>>
    /\ UNCHANGED <<loaderVars, extractVars>>

\* .then((res) => { if (!cancelled) setProfile(res); })
ThenCallback_NoCancelCheck(l) ==
    /\ loads[l].phase = "resolved"
    /\ loads' = [loads EXCEPT ![l].phase = "finally",
                              ![l].ignored = loads[l].cancelled]
    /\ profile' = loads[l].res
    /\ UNCHANGED <<search, nav, mounted, effects, initialWebId, currentWebId,
                   loading, error, active, views, loadsThisView,
                   redirectsThisView, viaRedirect>>
    /\ UNCHANGED <<loaderVars, extractVars>>

ThenCallback(l) ==
    /\ loads[l].phase = "resolved"
    /\ loads' = [loads EXCEPT ![l].phase = "finally",
                              ![l].ignored = loads[l].cancelled]
    /\ profile' = IF ~loads[l].cancelled THEN loads[l].res ELSE profile
    /\ UNCHANGED <<search, nav, mounted, effects, initialWebId, currentWebId,
                   loading, error, active, views, loadsThisView,
                   redirectsThisView, viaRedirect>>
    /\ UNCHANGED <<loaderVars, extractVars>>

\* .catch((e) => { if (!cancelled) setError(...); }), with a mutant that
\* drops the rejection instead of reporting it
CatchCallback_Swallow(l) ==
    /\ loads[l].phase = "rejected"
    /\ loads' = [loads EXCEPT ![l].phase = "finally",
                              ![l].ignored = loads[l].cancelled]
    /\ UNCHANGED <<search, nav, mounted, effects, initialWebId, currentWebId,
                   loading, error, profile, active, views, loadsThisView,
                   redirectsThisView, viaRedirect>>
    /\ UNCHANGED <<loaderVars, extractVars>>

CatchCallback(l) ==
    /\ loads[l].phase = "rejected"
    /\ loads' = [loads EXCEPT ![l].phase = "finally",
                              ![l].ignored = loads[l].cancelled]
    /\ error' = IF ~loads[l].cancelled THEN Some(ErrorMessage(loads[l].e)) ELSE error
    /\ UNCHANGED <<search, nav, mounted, effects, initialWebId, currentWebId,
                   loading, profile, active, views, loadsThisView,
                   redirectsThisView, viaRedirect>>
    /\ UNCHANGED <<loaderVars, extractVars>>

\* .finally(() => { if (!cancelled) setLoading(false); })
FinallyCallback(l) ==
    /\ loads[l].phase = "finally"
    /\ loads' = [loads EXCEPT ![l].phase = "done",
                              ![l].ignored = loads[l].ignored \/ loads[l].cancelled]
    /\ loading' = IF ~loads[l].cancelled THEN FALSE ELSE loading
    /\ UNCHANGED <<search, nav, mounted, effects, initialWebId, currentWebId,
                   error, profile, active, views, loadsThisView,
                   redirectsThisView, viaRedirect>>
    /\ UNCHANGED <<loaderVars, extractVars>>

\* onChange={(e) => setCurrentWebId(e.target.value)}
ChangeInput(s) ==
    /\ mounted
    /\ currentWebId' = s
    /\ UNCHANGED <<search, nav, mounted, effects, initialWebId, loading, error,
                   profile, loads, active, views, loadsThisView,
                   redirectsThisView, viaRedirect>>
    /\ UNCHANGED <<loaderVars, extractVars>>

\* onSubmit, the handler itself (a browser's validation of the type="url"
\* input happens before it and is no part of it): new URL(window.location.href)
\* parses the page's own address and does not throw, so the catch branch
\* (setError) is never taken
OnSubmit ==
    /\ mounted
    /\ nav' = [def |-> TRUE, v |-> SearchWith(Trim(currentWebId)), redirect |-> FALSE]
    /\ UNCHANGED <<search, mounted, effects, initialWebId, currentWebId, loading,
                   error, profile, loads, active, views, loadsThisView,
                   redirectsThisView, viaRedirect>>
    /\ UNCHANGED <<loaderVars, extractVars>>

\* the "Reset to TimBL" link
ClickReset ==
    /\ mounted
    /\ nav' = [def |-> TRUE, v |-> <<"?webid=">> \o EncodeURIComponent(DEFAULT_WEBID),
               redirect |-> FALSE]
    /\ UNCHANGED <<search, mounted, effects, initialWebId, currentWebId, loading,
                   error, profile, loads, active, views, loadsThisView,
                   redirectsThisView, viaRedirect>>
    /\ UNCHANGED <<loaderVars, extractVars>>

\* a contact's link, present when the profile section is rendered
ClickContact(c) ==
    /\ mounted
    /\ "profile" \in Shown
    /\ c \in profile.contacts
    /\ nav' = [def |-> TRUE, v |-> <<"?webid=">> \o EncodeURIComponent(c),
               redirect |-> FALSE]
    /\ UNCHANGED <<search, mounted, effects, initialWebId, currentWebId, loading,
                   error, profile, loads, active, views, loadsThisView,
                   redirectsThisView, viaRedirect>>
    /\ UNCHANGED <<loaderVars, extractVars>>

\* the requested navigation happens: the page is left (the effect's cleanup runs)
\* and the next page view renders for the first time.  Loads of the page left may
\* still settle afterwards.
Navigate ==
    /\ nav.def
    /\ views < MaxViews
    /\ LET s == FirstRender(LocationSearch(nav.v)) IN
       /\ search' = LocationSearch(nav.v)
       /\ initialWebId' = s.initialWebId
       /\ currentWebId' = s.currentWebId
       /\ loading' = s.loading
       /\ error' = s.error
       /\ profile' = s.profile
    /\ nav' = NoNav
    /\ mounted' = TRUE
    /\ effects' = "pending"
    /\ loads' = Cleanup(loads, active)
    /\ active' = 0
    /\ views' = views + 1
    /\ loadsThisView' = 0
    /\ redirectsThisView' = 0
    /\ viaRedirect' = nav.redirect
    /\ UNCHANGED <<loaderVars, extractVars>>

\* component teardown without a navigation: the effect's cleanup runs
Unmount ==
    /\ mounted
    /\ mounted' = FALSE
    /\ loads' = Cleanup(loads, active)
    /\ UNCHANGED <<search, nav, effects, initialWebId, currentWebId, loading,
                   error, profile, active, views, loadsThisView,
                   redirectsThisView, viaRedirect>>
    /\ UNCHANGED <<loaderVars, extractVars>>

Next ==
    \/ RedirectEffect
    \/ LoadEffect
    \/ \E l \in 1..Len(loads), o \in FetchOutcomes : PrimarySettle(l, o)
    \/ \E l \in 1..Len(loads), cs \in SUBSET ContactWebIds : ContactsSettle(l, cs)
    \/ \E l \in 1..Len(loads) : ThenCallback(l)
    \/ \E l \in 1..Len(loads) : CatchCallback(l)
    \/ \E l \in 1..Len(loads) : FinallyCallback(l)
    \/ \E s \in Inputs : ChangeInput(s)
    \/ OnSubmit
    \/ ClickReset
    \/ \E c \in ContactWebIds : ClickContact(c)
    \/ Navigate
    \/ Unmount

Spec == Init /\ [][Next]_vars

----------------------------------------------------------------------------
(* RDF terms, the store and the extraction helpers *)

Literal(v) == [termType |-> "Literal", value |-> v]
NamedNode(v) == [termType |-> "NamedNode", value |-> v]
BlankNode(v) == [termType |-> "BlankNode", value |-> v]
\* what store.any returns when nothing matches
NullTerm == [termType |-> "null", value |-> <<>>]

NamePredicates ==
    <<"foaf:name", "vcard:fn", "foaf:givenName", "foaf:familyName", "rdfs:label">>
ImagePredicates == <<"foaf:img", "foaf:depiction", "vcard:hasPhoto">>

nodeToString(term) ==
    IF term = NullTerm THEN Undefined
    ELSE IF term.termType = "Literal" THEN Some(term.value)
    ELSE IF term.termType = "NamedNode" THEN Some(term.value)
    ELSE Undefined

\* store.each(subj, pred): the objects of the matching statements, in store order
RECURSIVE StoreEach(_, _, _)
StoreEach(store, subj, pred) ==
    IF store = <<>> THEN <<>>
    ELSE LET st == Head(store) IN
         (IF st.s = subj /\ st.p = pred THEN <<st.o>> ELSE <<>>)
             \o StoreEach(Tail(store), subj, pred)

\* store.any(subj, pred): the object of the first matching statement, or null
StoreAny(store, subj, pred) ==
    LET os == StoreEach(store, subj, pred) IN
    IF os = <<>> THEN NullTerm ELSE Head(os)

\* Array.prototype.find(Boolean) over optional strings
RECURSIVE FindTruthy(_)
FindTruthy(xs) ==
    IF xs = <<>> THEN Undefined
    ELSE IF Truthy(Head(xs)) THEN Head(xs)
    ELSE FindTruthy(Tail(xs))

\* a mutant of extractName: the candidates probed in reverse order
extractName_Reversed(store, subj) ==
    FindTruthy([i \in 1..5 |-> nodeToString(StoreAny(store, subj, NamePredicates[6 - i]))])

extractName(store, subj) ==
    FindTruthy([i \in 1..5 |-> nodeToString(StoreAny(store, subj, NamePredicates[i]))])

extractImage(store, subj) ==
    FindTruthy([i \in 1..3 |-> nodeToString(StoreAny(store, subj, ImagePredicates[i]))])

\* Array.from(new Set(xs)): the first occurrence of each value, in order
RECURSIVE Unique(_)
Unique(xs) ==
    IF xs = <<>> THEN <<>>
    ELSE LET init == Unique(SubSeq(xs, 1, Len(xs) - 1))
             last == xs[Len(xs)]
         IN IF \E i \in 1..Len(init) : init[i] = last THEN init ELSE Append(init, last)

\* Array.prototype.filter(Boolean), the strings unwrapped
RECURSIVE FilterTruthy(_)
FilterTruthy(xs) ==
    IF xs = <<>> THEN <<>>
    ELSE (IF Truthy(Head(xs)) THEN <<Head(xs).v>> ELSE <<>>) \o FilterTruthy(Tail(xs))

\* the map over store.each of extractContacts
ContactStrings(objs) == [i \in 1..Len(objs) |-> nodeToString(objs[i])]

\* a mutant of extractContacts without the Set
extractContactsOf_NoSet(objs) == FilterTruthy(ContactStrings(objs))

\* extractContacts, given what store.each returned
extractContactsOf(objs) == FilterTruthy(Unique(ContactStrings(objs)))

extractContacts(store, subj) == extractContactsOf(StoreEach(store, subj, "foaf:knows"))

\* extractName(store, subject) ?? new URL(webId).hostname
ProfileName(store, webId) ==
    LET n == extractName(store, webId) IN
    IF n.def THEN n.v ELSE ParseURL(webId).hostname

\* extractName(store, cSubj) ?? uri
ContactName(store, uri) ==
    LET n == extractName(store, uri) IN
    IF n.def THEN n.v ELSE uri

----------------------------------------------------------------------------
(* The helpers on drawn inputs (SpecExtract) *)

AliceWebId == <<"https:", "//", "alice.example", "/card", "#", "me">>
BobWebId == <<"https:", "//", "bob.example", "/card", "#", "me">>

Statement(s, p, o, why) == [s |-> s, p |-> p, o |-> o, why |-> why]

\* what one name predicate may hold for the subject: nothing, an empty literal,
\* a literal, a resource, a blank node
NameOptions(i) ==
    { NullTerm,
      Literal(<<>>),
      Literal(<<NamePredicates[i], "literal">>),
      NamedNode(<<"https:", "//", "names.example", "/", NamePredicates[i]>>),
      BlankNode(<<"_:b", NamePredicates[i]>>) }

\* the objects store.each may return for foaf:knows
KnowsTerms ==
    { NamedNode(AliceWebId), NamedNode(BobWebId), Literal(AliceWebId),
      Literal(<<>>), BlankNode(<<"_:b0">>) }

RECURSIVE SeqsUpTo(_, _)
SeqsUpTo(S, n) ==
    IF n = 0 THEN {<<>>}
    ELSE LET shorter == SeqsUpTo(S, n - 1) IN
         shorter \cup {Append(q, x) : q \in {t \in shorter : Len(t) = n - 1}, x \in S}

\* a store holding, for subj, the drawn name terms, after a statement about
\* another subject
RECURSIVE NameStatements(_, _, _)
NameStatements(subj, vals, i) ==
    IF i > 5 THEN <<>>
    ELSE (IF vals[i] = NullTerm THEN <<>>
          ELSE <<Statement(subj, NamePredicates[i], vals[i], subj)>>)
         \o NameStatements(subj, vals, i + 1)
NameStore(subj, vals) ==
    <<Statement(AliceWebId, "foaf:name", Literal(<<"Alice">>), subj)>>
        \o NameStatements(subj, vals, 1)

\* a store holding one foaf:knows statement per drawn object (equal objects
\* are statements of different graphs)
KnowsStore(subj, objs) ==
    [i \in 1..Len(objs) |-> Statement(subj, "foaf:knows", objs[i], i)]

NotRun == [op |-> "none", v |-> <<>>]
ViewIdle ==
    /\ search = <<>> /\ nav = NoNav /\ mounted = FALSE /\ effects = "pending"
    /\ initialWebId = Undefined /\ currentWebId = <<>> /\ loading = FALSE
    /\ error = Undefined /\ profile = NoProfile /\ loads = <<>> /\ active = 0
    /\ views = 0 /\ loadsThisView = 0 /\ redirectsThisView = 0
    /\ viaRedirect = FALSE

InitExtract ==
    /\ \/ \E w \in {ExampleWebId, DEFAULT_WEBID}, vals \in [1..5 -> UNION {NameOptions(i) : i \in 1..5}] :
            /\ \A i \in 1..5 : vals[i] \in NameOptions(i)
            /\ xin = [kind |-> "name", subject |-> w, vals |-> vals,
                      store |-> NameStore(w, vals)]
       \/ \E objs \in SeqsUpTo(KnowsTerms, MaxKnows) :
            xin = [kind |-> "knows", subject |-> ExampleWebId, vals |-> objs,
                   store |-> KnowsStore(ExampleWebId, objs)]
    /\ xout = NotRun
    /\ ViewIdle
    /\ LoaderIdle

\* line 68 of loadProfile on the drawn store
ResolveProfileName ==
    /\ xin.kind = "name" /\ xout = NotRun
    /\ xout' = [op |-> "profileName", v |-> ProfileName(xin.store, xin.subject)]
    /\ UNCHANGED <<xin, viewVars, loaderVars>>

\* line 79 of loadProfile on the drawn store
ResolveContactName ==
    /\ xin.kind = "name" /\ xout = NotRun
    /\ xout' = [op |-> "contactName", v |-> ContactName(xin.store, xin.subject)]
    /\ UNCHANGED <<xin, viewVars, loaderVars>>

\* extractContacts on the drawn store
ApplyExtractContacts ==
    /\ xin.kind = "knows" /\ xout = NotRun
    /\ xout' = [op |-> "contacts", v |-> extractContacts(xin.store, xin.subject)]
    /\ UNCHANGED <<xin, viewVars, loaderVars>>

NextExtract ==
    \/ ResolveProfileName
    \/ ResolveContactName
    \/ ApplyExtractContacts

SpecExtract == InitExtract /\ [][NextExtract]_vars

----------------------------------------------------------------------------
(* loadProfile step by step (SpecLoader).  Two executions of                *)
(* loadProfile(ExampleWebId), each with its own store and fetcher, over the  *)
(* same documents; the second starts when the first has settled.  Its fetch  *)
(* outcomes are those of the first, or those of the first with one failed    *)
(* contact fetch succeeding instead.                                         *)

Runs == {1, 2}
ContactURIs == {AliceWebId, BobWebId}
URIs == {ExampleWebId} \cup ContactURIs

Img(host) == NamedNode(<<"https:", "//", host, "/photo.png">>)

\* the documents the primary WebID may serve
PrimaryDocs ==
    { <<>>,
      << [s |-> ExampleWebId, p |-> "foaf:name", o |-> Literal(<<"Will">>)],
         [s |-> ExampleWebId, p |-> "foaf:knows", o |-> NamedNode(AliceWebId)],
         [s |-> ExampleWebId, p |-> "foaf:knows", o |-> NamedNode(BobWebId)] >>,
      << [s |-> ExampleWebId, p |-> "foaf:img", o |-> Img("example.org")],
         [s |-> ExampleWebId, p |-> "foaf:knows", o |-> NamedNode(BobWebId)],
         [s |-> ExampleWebId, p |-> "foaf:knows", o |-> Literal(AliceWebId)],
         [s |-> ExampleWebId, p |-> "foaf:knows", o |-> BlankNode(<<"_:b0">>)],
         [s |-> ExampleWebId, p |-> "foaf:knows", o |-> NamedNode(AliceWebId)] >> }
\* Alice's document may describe Alice only, or also name her friend Bob
AliceDocs ==
    { <<>>,
      << [s |-> AliceWebId, p |-> "foaf:name", o |-> Literal(<<"Alice">>)],
         [s |-> AliceWebId, p |-> "foaf:img", o |-> Img("alice.example")] >>,
      << [s |-> AliceWebId, p |-> "foaf:name", o |-> Literal(<<"Alice">>)],
         [s |-> AliceWebId, p |-> "foaf:knows", o |-> NamedNode(BobWebId)],
         [s |-> BobWebId, p |-> "foaf:name", o |-> Literal(<<"Bobby">>)],
         [s |-> BobWebId, p |-> "foaf:depiction", o |-> Img("alice.example")] >> }
BobDocs ==
    { <<>>,
      << [s |-> BobWebId, p |-> "foaf:name", o |-> Literal(<<"Bob">>)] >> }

\* fetcher.load(uri) succeeding: the document's statements are added to the
\* store, each once per graph
RECURSIVE Merge(_, _, _)
Merge(store, doc, why) ==
    IF doc = <<>> THEN store
    ELSE LET st == Statement(Head(doc).s, Head(doc).p, Head(doc).o, why) IN
         Merge(IF \E i \in 1..Len(store) : store[i] = st THEN store
               ELSE Append(store, st),
               Tail(doc), why)

NoContact == [def |-> FALSE, webId |-> <<>>, name |-> <<>>, image |-> Undefined]
NoResult == [name |-> <<>>, image |-> Undefined, contacts |-> <<>>]

\* an execution of loadProfile before its first step
NewRun ==
    [ pc |-> "start",
      store |-> <<>>,
      primaryFetch |-> "idle",
      name |-> <<>>,
      image |-> Undefined,
      contactsUris |-> <<>>,
      fetch |-> [u \in ContactURIs |-> "idle"],
      contact |-> [u \in ContactURIs |-> NoContact],
      result |-> NoResult,
      order |-> <<>> ]     \* ghost: the contact steps in the order they ran

InitLoader ==
    /\ \E pd \in PrimaryDocs, ad \in AliceDocs, bd \in BobDocs :
         web = [u \in URIs |-> IF u = ExampleWebId THEN pd
                               ELSE IF u = AliceWebId THEN ad ELSE bd]
    /\ \E o1 \in [URIs -> FetchOutcomes] :
         \E o2 \in {o1} \cup {[o1 EXCEPT ![u] = "ok"] : u \in ContactURIs} :
            outcome = [r \in Runs |-> IF r = 1 THEN o1 ELSE o2]
    /\ run = [r \in Runs |-> NewRun]
    /\ ViewIdle
    /\ ExtractIdle

Settled(r) == run[r].pc \in {"resolved", "rejected"}
InSeq(x, xs) == \E i \in 1..Len(xs) : xs[i] = x

\* loadProfile is called: the store and the fetcher are made and
\* fetcher.load(webId) is issued
CallLoadProfile(r) ==
    /\ run[r].pc = "start"
    /\ r = 1 \/ Settled(1)
    /\ run' = [run EXCEPT ![r].pc = "primary", ![r].primaryFetch = "pending"]
    /\ UNCHANGED <<web, outcome, viewVars, extractVars>>

\* the primary fetch settles: the document is merged, or the load is rejected
PrimaryFetchSettles(r) ==
    /\ run[r].pc = "primary"
    /\ IF outcome[r][ExampleWebId] = "ok"
       THEN run' = [run EXCEPT ![r].pc = "extract",
                               ![r].primaryFetch = "ok",
                               ![r].store = Merge(@, web[ExampleWebId], ExampleWebId)]
       ELSE run' = [run EXCEPT ![r].pc = "rejected", ![r].primaryFetch = "failed"]
    /\ UNCHANGED <<web, outcome, viewVars, extractVars>>

\* lines 66-73: the continuation of the first await, up to the await of
\* each contact's callback
ExtractPrimary(r) ==
    /\ run[r].pc = "extract"
    /\ LET uris == extractContacts(run[r].store, ExampleWebId) IN
       run' = [run EXCEPT
                 ![r].pc = "fanout",
                 ![r].name = ProfileName(run[r].store, ExampleWebId),
                 ![r].image = extractImage(run[r].store, ExampleWebId),
                 ![r].contactsUris = uris,
                 ![r].fetch = [u \in ContactURIs |->
                                  IF InSeq(u, uris) THEN "pending" ELSE "idle"]]
    /\ UNCHANGED <<web, outcome, viewVars, extractVars>>

\* a contact's fetch settles: its document is merged into the shared store,
\* or the fetch fails
ContactFetchSettles(r, u) ==
    /\ run[r].fetch[u] = "pending"
    /\ IF outcome[r][u] = "ok"
       THEN run' = [run EXCEPT ![r].fetch[u] = "ok",
                               ![r].store = Merge(@, web[u], u),
                               ![r].order = Append(@, <<"settle", u>>)]
       ELSE run' = [run EXCEPT ![r].fetch[u] = "failed",
                               ![r].order = Append(@, <<"settle", u>>)]
    /\ UNCHANGED <<web, outcome, viewVars, extractVars>>

\* a mutant of the try branch: the extraction does not wait for the fetch
ContactExtract_NoAwait(r, u) ==
    /\ run[r].fetch[u] \in {"pending", "ok"}
    /\ ~run[r].contact[u].def
    /\ run' = [run EXCEPT
                 ![r].contact[u] = [def |-> TRUE, webId |-> u,
                                    name |-> ContactName(run[r].store, u),
                                    image |-> extractImage(run[r].store, u)],
                 ![r].order = Append(@, <<"continue", u>>)]
    /\ UNCHANGED <<web, outcome, viewVars, extractVars>>

\* lines 76-81: the continuation of await fetcher.load(uri)
ContactExtract(r, u) ==
    /\ run[r].fetch[u] = "ok"
    /\ ~run[r].contact[u].def
    /\ run' = [run EXCEPT
                 ![r].contact[u] = [def |-> TRUE, webId |-> u,
                                    name |-> ContactName(run[r].store, u),
                                    image |-> extractImage(run[r].store, u)],
                 ![r].order = Append(@, <<"continue", u>>)]
    /\ UNCHANGED <<web, outcome, viewVars, extractVars>>

\* lines 82-88: the catch branch
ContactCatch(r, u) ==
    /\ run[r].fetch[u] = "failed"
    /\ ~run[r].contact[u].def
    /\ run' = [run EXCEPT
                 ![r].contact[u] = [def |-> TRUE, webId |-> u, name |-> u,
                                    image |-> Undefined],
                 ![r].order = Append(@, <<"continue", u>>)]
    /\ UNCHANGED <<web, outcome, viewVars, extractVars>>

\* Promise.all resolves and the Profile is returned
ReturnProfile(r) ==
    /\ run[r].pc = "fanout"
    /\ \A i \in 1..Len(run[r].contactsUris) : run[r].contact[run[r].contactsUris[i]].def
    /\ run' = [run EXCEPT
                 ![r].pc = "resolved",
                 ![r].result = [ name |-> run[r].name,
                                 image |-> run[r].image,
                                 contacts |-> [i \in 1..Len(run[r].contactsUris) |->
                                     run[r].contact[run[r].contactsUris[i]]] ]]
    /\ UNCHANGED <<web, outcome, viewVars, extractVars>>

NextLoader ==
    \/ \E r \in Runs : CallLoadProfile(r)
    \/ \E r \in Runs : PrimaryFetchSettles(r)
    \/ \E r \in Runs : ExtractPrimary(r)
    \/ \E r \in Runs, u \in ContactURIs : ContactFetchSettles(r, u)
    \/ \E r \in Runs, u \in ContactURIs : ContactExtract(r, u)
    \/ \E r \in Runs, u \in ContactURIs : ContactCatch(r, u)
    \/ \E r \in Runs : ReturnProfile(r)

SpecLoader == InitLoader /\ [][NextLoader]_vars

----------------------------------------------------------------------------
(* Claims about the page, checked under Spec *)

\* C1: in a page view with a WebID in the query string the view shows exactly
\* one of the loading indicator, the error message and the profile, at every
\* point from the first render on.
C1_ExactlyOneShown ==
    (mounted /\ Truthy(initialWebId)) => Cardinality(Shown) = 1

\* C2: once a load's cleanup has run, the callbacks of that load change none
\* of profile, error and loading, and the profile shown is never that of a
\* load started for another page view's WebID.
C2_SupersededLoadChangesNothing ==
    /\ [][\A l \in 1..Len(loads) :
            (loads[l].cancelled /\ loads'[l].phase # loads[l].phase)
                => UNCHANGED <<profile, error, loading>>]_vars
    /\ [](~profile.null => (active # 0 /\ profile = loads[active].res
                             /\ profile.of = initialWebId.v))

\* a superseded load has settled (its callbacks ran after the cleanup) while
\* the load of a newer page view, for another WebID, has set the profile
C2_Witness ==
    \E l \in 1..Len(loads) :
        /\ loads[l].ignored /\ loads[l].phase = "done"
        /\ active # 0 /\ active # l
        /\ loads[active].webId # loads[l].webId
        /\ ~loads[active].cancelled
        /\ ~profile.null /\ profile.of = loads[active].webId

\* C4: a load whose primary document cannot be fetched or parsed is rejected as
\* a whole; when it is not superseded the view ends with the error message
\* shown, the loading indicator off and no profile; and a page view calls the
\* loader at most once.
C4_PrimaryFailureEndsFailed ==
    /\ loadsThisView <= 1
    /\ \A l \in 1..Len(loads) :
         /\ loads[l].primary \in Failures =>
              /\ loads[l].phase \in {"rejected", "finally", "done"}
              /\ loads[l].res.null
         /\ (loads[l].primary \in Failures /\ loads[l].phase = "done"
                /\ ~loads[l].cancelled) =>
              /\ l = active
              /\ error = Some(<<"Fetcher:", loads[l].primary>>)
              /\ Shown = {"error"}
              /\ ~loading
              /\ profile.null

\* the primary fetch of the view's load timed out and the load has finished
C4_Witness ==
    /\ active # 0
    /\ loads[active].primary = "timeout"
    /\ loads[active].phase = "done"
    /\ ~loads[active].cancelled
    /\ Shown = {"error"}

C6_RedirectOnce ==
    /\ redirectsThisView <= 1
    /\ ~Truthy(initialWebId) =>
         /\ loadsThisView = 0 /\ active = 0
         /\ effects # "pending" => redirectsThisView = 1
    /\ (nav.def /\ nav.redirect) => ParamsGet(LocationSearch(nav.v)) = Some(DEFAULT_WEBID)
    /\ viaRedirect =>
         /\ initialWebId = Some(DEFAULT_WEBID)
         /\ redirectsThisView = 0

\* the page view reached by the redirect has run its effects and started the
\* load of the default WebID
C6_Witness ==
    /\ viaRedirect
    /\ effects = "done"
    /\ redirectsThisView = 0
    /\ loadsThisView = 1
    /\ loads[active].webId = DEFAULT_WEBID

----------------------------------------------------------------------------
(* Claims about the helpers, checked under SpecExtract *)

\* the drawn term of name predicate i is a non-empty literal or resource
Usable(i) ==
    /\ xin.vals[i].termType \in {"Literal", "NamedNode"}
    /\ xin.vals[i].value # <<>>

\* C7: the display name is the value of the highest-priority name predicate
\* whose value is a non-empty literal or resource URI, whatever the
\* lower-priority predicates hold; when there is none, the Profile name is the
\* host of the WebID ("example.org" for https://example.org/profile#me) and a
\* Contact name is its URI.
C7_NamePriority ==
    xout.op \in {"profileName", "contactName"} =>
        IF \E i \in 1..5 : Usable(i)
        THEN \E i \in 1..5 :
                /\ Usable(i)
                /\ \A j \in 1..(i - 1) : ~Usable(j)
                /\ xout.v = xin.vals[i].value
        ELSE /\ (xout.op = "profileName" /\ xin.subject = ExampleWebId)
                    => xout.v = <<"example.org">>
             /\ (xout.op = "profileName" /\ xin.subject = DEFAULT_WEBID)
                    => xout.v = <<"timbl.solidcommunity.net">>
             /\ xout.op = "contactName" => xout.v = xin.subject

\* the full name is an empty literal, the formatted name a blank node, and the
\* given name wins over the family name and the label
C7_Witness ==
    /\ xout.op = "profileName"
    /\ xin.vals[1] = Literal(<<>>)
    /\ xin.vals[2].termType = "BlankNode"
    /\ Usable(3) /\ Usable(4) /\ Usable(5)
    /\ xout.v = xin.vals[3].value

\* no name predicate matches and the Profile name is the WebID's host
C7_WitnessHost ==
    /\ xout.op = "profileName"
    /\ xin.subject = ExampleWebId
    /\ \A i \in 1..5 : ~Usable(i)
    /\ xout.v = <<"example.org">>

\* C8: extractContacts returns each distinct non-empty string value of the
\* "knows" objects exactly once and nothing else; three objects of which two
\* are the same URI give two URIs.
C8_DistinctContacts ==
    xout.op = "contacts" =>
        /\ \A i, j \in 1..Len(xout.v) : i # j => xout.v[i] # xout.v[j]
        /\ {xout.v[i] : i \in 1..Len(xout.v)}
             = {xin.vals[i].value : i \in
                   {k \in 1..Len(xin.vals) :
                        /\ xin.vals[k].termType \in {"Literal", "NamedNode"}
                        /\ xin.vals[k].value # <<>>}}
        /\ \A i \in 1..Len(xout.v) : xout.v[i] # <<>>
        /\ xin.vals = <<NamedNode(AliceWebId), NamedNode(BobWebId), NamedNode(AliceWebId)>>
              => Len(xout.v) = 2

\* three "knows" objects, two of them the same URI, gave two URIs
C8_Witness ==
    /\ xout.op = "contacts"
    /\ xin.vals = <<NamedNode(AliceWebId), NamedNode(BobWebId), NamedNode(AliceWebId)>>
    /\ xout.v = <<AliceWebId, BobWebId>>

----------------------------------------------------------------------------
(* Claims about loadProfile, checked under SpecLoader *)

\* every statement of the document at u is in the store of execution r
DocMerged(r, u) ==
    \A i \in 1..Len(web[u]) :
        \E k \in 1..Len(run[r].store) :
            run[r].store[k] = Statement(web[u][i].s, web[u][i].p, web[u][i].o, u)

\* the distinct non-empty "knows" values of the primary document
KnownURIs ==
    { web[ExampleWebId][i].o.value : i \in
        { k \in 1..Len(web[ExampleWebId]) :
            /\ web[ExampleWebId][k].s = ExampleWebId
            /\ web[ExampleWebId][k].p = "foaf:knows"
            /\ web[ExampleWebId][k].o.termType \in {"Literal", "NamedNode"}
            /\ web[ExampleWebId][k].o.value # <<>> } }

\* once the primary document has loaded, loadProfile is not rejected, and it
\* resolves with one Contact per distinct "knows" URI, the Contact of a failed
\* fetch having its URI as name and no image
ContactFailuresDegrade ==
    \A r \in Runs :
        /\ run[r].primaryFetch = "ok" => run[r].pc # "rejected"
        /\ run[r].pc = "resolved" =>
             LET cs == run[r].result.contacts IN
             /\ {cs[i].webId : i \in 1..Len(cs)} = KnownURIs
             /\ Len(cs) = Cardinality(KnownURIs)
             /\ \A i \in 1..Len(cs) :
                    /\ cs[i].def
                    /\ outcome[r][cs[i].webId] # "ok" =>
                         (cs[i].name = cs[i].webId /\ cs[i].image = Undefined)

\* the Contacts of the URIs whose fetch succeeded are the same whether or not
\* another contact's fetch failed: the two executions differ at most in one
\* contact fetch failing in the first, and ran their contact steps in the
\* same order
OtherContactsUnaffected ==
    (run[1].pc = "resolved" /\ run[2].pc = "resolved" /\ run[1].order = run[2].order)
        => \A u \in ContactURIs :
              (outcome[1][u] = "ok" /\ outcome[2][u] = "ok")
                  => run[1].contact[u] = run[2].contact[u]

\* C3: once the primary document has loaded, loadProfile never fails because
\* of a contact fetch; it resolves with exactly one Contact per distinct
\* "knows" URI, a failed one with name = URI and no image, and the Contacts of
\* the other URIs are unaffected by that failure.
C3_ContactFailureIsolated ==
    ContactFailuresDegrade /\ OtherContactsUnaffected

\* C9: the primary subject is extracted only after the primary fetch has
\* settled, no contact fetch is issued before that, and a contact is extracted
\* only after its own fetch has settled (its document merged, or the fetch
\* failed); nothing orders different contacts.
C9_ExtractionAfterOwnFetch ==
    \A r \in Runs :
        /\ run[r].pc \in {"fanout", "resolved"} =>
              (run[r].primaryFetch = "ok" /\ DocMerged(r, ExampleWebId))
        /\ \A u \in ContactURIs :
              /\ run[r].fetch[u] # "idle" =>
                    (run[r].primaryFetch = "ok" /\ run[r].pc \in {"fanout", "resolved"})
              /\ run[r].contact[u].def =>
                    /\ run[r].fetch[u] \in {"ok", "failed"}
                    /\ run[r].fetch[u] = "ok" => DocMerged(r, u)
                    /\ run[r].fetch[u] = "ok" <=> outcome[r][u] = "ok"

\* Bob, second in the list, has been extracted from his merged document while
\* the fetch of Alice, first in the list, is still pending
C9_Witness ==
    /\ run[1].contactsUris = <<AliceWebId, BobWebId>>
    /\ run[1].contact[BobWebId].def
    /\ run[1].contact[BobWebId].name = <<"Bob">>
    /\ run[1].fetch[AliceWebId] = "pending"

\* C10: for fixed documents and fixed fetch outcomes loadProfile returns the
\* same Profile whatever the order in which the contact fetches complete.
C10_ResultIndependentOfOrder ==
    (Settled(1) /\ Settled(2) /\ outcome[1] = outcome[2])
        => (run[1].pc = run[2].pc /\ run[1].result = run[2].result)

====
